---------------------------- MODULE Spec2Model ----------------------------
(***************************************************************************)
(* The hybrid page cache of server.ts: an in-process NodeCache             *)
(* (memoryCache) in front of the Firestore collection 'cache', filled by   *)
(* the catch-all GET handler and emptied by POST /api/cache/invalidate.    *)
(*                                                                         *)
(* Strings that the code inspects character by character (request urls,    *)
(* cache keys, invalidation patterns) are sequences of one-character       *)
(* strings.  Rendered html is a sequence too: the code only tests it for   *)
(* truthiness (non-empty) and copies it.                                   *)
(*                                                                         *)
(* A handler runs without interleaving between two awaits; every await is  *)
(* a point where the other handlers and the store may take steps.          *)
(***************************************************************************)
EXTENDS Naturals, Sequences, FiniteSets, TLC

(***************************************************************************)
(* Bounds of the model.                                                    *)
(***************************************************************************)
MaxResolves == 2        \* GET requests served in one behaviour
MaxInvalidations == 1   \* POST /api/cache/invalidate requests served
MaxHtmlLen == 1         \* longest page the renderer returns
MaxLen == 2             \* longest string given to the key normalisation
MaxRestarts == 1        \* restarts of the server process

\* The GET requests, numbered in the order they arrive.
Reqs == 1..MaxResolves

(***************************************************************************)
(* Characters.  Whitespace is the class \s of a JavaScript regular         *)
(* expression, one token per code point.                                   *)
(***************************************************************************)
Whitespace ==
    {" ", "TAB", "LF", "VT", "FF", "CR", "NBSP", "U+1680", "U+2000", "U+2001",
     "U+2002", "U+2003", "U+2004", "U+2005", "U+2006", "U+2007", "U+2008",
     "U+2009", "U+200A", "U+2028", "U+2029", "U+202F", "U+205F", "U+3000",
     "U+FEFF"}

\* url.replace(/[\/\s]/g, '_'): every '/' and every whitespace character
\* becomes '_', one for one; nothing else changes.
safeUrlSlashOnly(url) ==
    [i \in 1..Len(url) |-> IF url[i] = "/" THEN "_" ELSE url[i]]

safeUrl(url) ==
    [i \in 1..Len(url) |-> IF url[i] = "/" \/ url[i] \in Whitespace
                           THEN "_" ELSE url[i]]

\* The same replacement in the invalidation handler.
safeUrlInvalidate(url) ==
    [i \in 1..Len(url) |-> IF url[i] = "/" \/ url[i] \in Whitespace
                           THEN "_" ELSE url[i]]

\* key.includes(pattern): pattern occurs in key as a contiguous substring.
includes(key, pattern) ==
    \E i \in 0..Len(key) :
        /\ i + Len(pattern) <= Len(key)
        /\ \A j \in 1..Len(pattern) : key[i + j] = pattern[j]

\* JavaScript truthiness of a string: every string but the empty one.
truthy(s) == Len(s) > 0

(***************************************************************************)
(* Inputs.                                                                 *)
(***************************************************************************)
\* req.url of the GET requests: "/a", "//" and "/_"; the last two share a key.
Urls == {<<"/", "a">>, <<"/", "/">>, <<"/", "_">>}

\* The cache keys of those urls.
Keys == {safeUrl(u) : u \in Urls}

\* Pages the renderer can return: "", "h", "hh", ...
Htmls == {[i \in 1..n |-> "h"] : n \in 0..MaxHtmlLen}

\* A value that may be undefined.
Undefined == [def |-> FALSE, val |-> <<>>]
Some(v) == [def |-> TRUE, val |-> v]

(***************************************************************************)
(* Firestore documents, as the handler reads them: cachedDoc.exists,       *)
(* cachedDoc.data() (undefined or an object) and whether data().html is a  *)
(* string.                                                                 *)
(***************************************************************************)
NoDoc == [exists |-> FALSE, hasData |-> FALSE, htmlIsString |-> FALSE, html |-> <<>>]
Doc(h) == [exists |-> TRUE, hasData |-> TRUE, htmlIsString |-> TRUE, html |-> h]
NoHtmlDoc == [exists |-> TRUE, hasData |-> TRUE, htmlIsString |-> FALSE, html |-> <<>>]
NoDataDoc == [exists |-> TRUE, hasData |-> FALSE, htmlIsString |-> FALSE, html |-> <<>>]

\* cachedDoc.exists && cachedData && typeof cachedData.html === 'string'
isHitIfExists(cachedDoc) == cachedDoc.exists

isHit(cachedDoc) ==
    cachedDoc.exists /\ cachedDoc.hasData /\ cachedDoc.htmlIsString

VARIABLES
    memoryCache,    \* the NodeCache: a function from its keys to html
    firestore,      \* collection 'cache': key -> document
    req,            \* the GET handlers: position, locals, response
    started,        \* GET requests received so far
    deletes,        \* key -> delete() calls of the invalidation in flight
    rejected,       \* key -> delete() calls that were rejected (nobody awaits them)
    inv,            \* the last invalidation request: body, locals, response
    invalidations,  \* invalidation requests received so far
    norm,           \* a string and what the key normalisation makes of it
    restarts        \* restarts of the server process so far

vars == <<memoryCache, firestore, req, started, deletes, rejected, inv,
          invalidations, norm, restarts>>

(***************************************************************************)
(* NodeCache without expiry (stdTTL 0, checkperiod 0).                     *)
(***************************************************************************)
\* memoryCache.get(key): the value, or undefined
cacheGet(key) ==
    IF key \in DOMAIN memoryCache THEN Some(memoryCache[key]) ELSE Undefined

\* memoryCache.set(key, value) on cache c
cacheSetMaxKeys(c, key, value) == [k \in {key} |-> value]

cacheSet(c, key, value) ==
    [k \in DOMAIN c \cup {key} |-> IF k = key THEN value ELSE c[k]]

\* memoryCache.del(key) on cache c, for every key of a set
cacheDelAll(c, keys) == [k \in DOMAIN c \ keys |-> c[k]]

\* memoryCache.keys() on cache c
cacheKeys(c) == DOMAIN c


(***************************************************************************)
(* Initial state: an empty NodeCache, no request received.  The Firestore  *)
(* collection outlives the process, so it starts with whatever an earlier  *)
(* run (or a partial write) left there: here at most one document.         *)
(***************************************************************************)
InitDocs == {NoDoc, NoHtmlDoc, NoDataDoc} \cup {Doc(h) : h \in Htmls}

NoResponse == [sent |-> 0, status |-> 0, body |-> <<>>]

\* A GET handler: its position, its locals (url, memoryCached, cachedDoc,
\* html), what it has called so far (gets, renders, cached, sets), which of
\* its awaits were rejected, how many invalidations had been served when it
\* arrived, and its response.
IdleReq ==
    [pc |-> "idle", url |-> <<>>, memoryCached |-> Undefined,
     cachedDoc |-> NoDoc, readError |-> FALSE, html |-> Undefined,
     renderError |-> FALSE, saveError |-> FALSE,
     gets |-> 0, renders |-> 0, cached |-> 0, sets |-> 0,
     epoch |-> 0, res |-> NoResponse]

NoNorm == [stage |-> 0, p |-> <<>>, key |-> <<>>, again |-> <<>>, invKey |-> <<>>]

NoInvalidation ==
    [url |-> Undefined, urlIsString |-> TRUE, pattern |-> Undefined,
     res |-> NoResponse]

Init ==
    /\ memoryCache = <<>>
    /\ firestore \in [Keys -> InitDocs]
    /\ Cardinality({k \in Keys : firestore[k] # NoDoc}) <= 1
    /\ req = [r \in Reqs |-> IdleReq]
    /\ started = 0
    /\ deletes = [k \in Keys |-> 0]
    /\ rejected = [k \in Keys |-> 0]
    /\ inv = NoInvalidation
    /\ invalidations = 0
    /\ norm = NoNorm
    /\ restarts = 0

\* res.send(body) / res.status(500).send(body)
send(res, status, body) ==
    [sent |-> res.sent + 1, status |-> status, body |-> body]

\* The handler sends and returns; what it saw and called stays on record.
return(q, status, body) ==
    [q EXCEPT !.pc = "done", !.res = send(q.res, status, body)]

(***************************************************************************)
(* server.get('*'), from the request to the first await.                   *)
(* A truthy memoryCached is sent at once; otherwise docRef.get() is        *)
(* issued.                                                                 *)
(***************************************************************************)
\* if (memoryCached)
memoryHit(memoryCached) == memoryCached.def /\ truthy(memoryCached.val)

ReceiveExpiring(r, url) ==
    /\ req[r].pc = "idle"
    /\ r = started + 1
    /\ started' = started + 1
    /\ LET memoryCached == cacheGet(safeUrl(url))
           fresh == [IdleReq EXCEPT !.url = url, !.memoryCached = memoryCached,
                                    !.epoch = invalidations]
       IN  /\ req' = [req EXCEPT ![r] =
                IF memoryHit(memoryCached)
                THEN return(fresh, 200, memoryCached.val)
                ELSE [fresh EXCEPT !.pc = "get", !.gets = 1]]
           /\ memoryCache' = IF memoryHit(memoryCached)
                             THEN cacheDelAll(memoryCache, {safeUrl(url)})
                             ELSE memoryCache
    /\ UNCHANGED <<firestore, deletes, rejected, inv, invalidations, norm, restarts>>

Receive(r, url) ==
    /\ req[r].pc = "idle"
    /\ r = started + 1
    /\ started' = started + 1
    /\ LET memoryCached == cacheGet(safeUrl(url))
           fresh == [IdleReq EXCEPT !.url = url, !.memoryCached = memoryCached,
                                    !.epoch = invalidations]
       IN  req' = [req EXCEPT ![r] =
                IF memoryHit(memoryCached)
                THEN return(fresh, 200, memoryCached.val)
                ELSE [fresh EXCEPT !.pc = "get", !.gets = 1]]
    /\ UNCHANGED <<memoryCache, firestore, deletes, rejected, inv, invalidations, norm, restarts>>

(***************************************************************************)
(* The store serves docRef.get(): the snapshot is taken now, the handler   *)
(* resumes in a later step.                                                *)
(***************************************************************************)
StoreGet(r) ==
    /\ req[r].pc = "get"
    /\ req' = [req EXCEPT ![r].pc = "gotDoc",
                          ![r].cachedDoc = firestore[safeUrl(req[r].url)]]
    /\ UNCHANGED <<memoryCache, firestore, started, deletes, rejected, inv, invalidations, norm, restarts>>

\* commonEngine.render(...) is called; the handler awaits it.
callRender(q) == [q EXCEPT !.pc = "render", !.renders = q.renders + 1]

(***************************************************************************)
(* docRef.get() is rejected: the inner catch logs it and the handler goes  *)
(* on to render.                                                           *)
(***************************************************************************)
StoreGetFailUncaught(r) ==
    /\ req[r].pc = "get"
    /\ req' = [req EXCEPT ![r] =
            return([req[r] EXCEPT !.readError = TRUE], 500, <<"Server Error">>)]
    /\ UNCHANGED <<memoryCache, firestore, started, deletes, rejected, inv, invalidations, norm, restarts>>

StoreGetFail(r) ==
    /\ req[r].pc = "get"
    /\ req' = [req EXCEPT ![r] = callRender([req[r] EXCEPT !.readError = TRUE])]
    /\ UNCHANGED <<memoryCache, firestore, started, deletes, rejected, inv, invalidations, norm, restarts>>

(***************************************************************************)
(* The handler resumes with the snapshot: a hit is copied into the         *)
(* NodeCache and sent; anything else goes on to render.                    *)
(***************************************************************************)
AfterGetNoBackfill(r) ==
    /\ req[r].pc = "gotDoc"
    /\ IF isHit(req[r].cachedDoc)
       THEN req' = [req EXCEPT ![r] =
                return([req[r] EXCEPT !.cached = 1], 200, req[r].cachedDoc.html)]
       ELSE req' = [req EXCEPT ![r] = callRender(req[r])]
    /\ UNCHANGED <<memoryCache, firestore, started, deletes, rejected, inv, invalidations, norm, restarts>>

AfterGetNoReturn(r) ==
    /\ req[r].pc = "gotDoc"
    /\ LET cachedDoc == req[r].cachedDoc
           key == safeUrl(req[r].url)
       IN  IF isHit(cachedDoc)
           THEN /\ memoryCache' = cacheSet(memoryCache, key, cachedDoc.html)
                /\ req' = [req EXCEPT ![r] = callRender(
                        return([req[r] EXCEPT !.cached = 1], 200, cachedDoc.html))]
           ELSE /\ memoryCache' = memoryCache
                /\ req' = [req EXCEPT ![r] = callRender(req[r])]
    /\ UNCHANGED <<firestore, started, deletes, rejected, inv, invalidations, norm, restarts>>

AfterGet(r) ==
    /\ req[r].pc = "gotDoc"
    /\ LET cachedDoc == req[r].cachedDoc
           key == safeUrl(req[r].url)
       IN  IF isHit(cachedDoc)
           THEN /\ memoryCache' = cacheSet(memoryCache, key, cachedDoc.html)
                /\ req' = [req EXCEPT ![r] =
                        return([req[r] EXCEPT !.cached = 1], 200, cachedDoc.html)]
           ELSE /\ memoryCache' = memoryCache
                /\ req' = [req EXCEPT ![r] = callRender(req[r])]
    /\ UNCHANGED <<firestore, started, deletes, rejected, inv, invalidations, norm, restarts>>

(***************************************************************************)
(* The render resolves with html: memoryCache.set, then docRef.set(...)    *)
(* is issued and awaited.                                                  *)
(***************************************************************************)
RenderDoneRawUrl(r, html) ==
    /\ req[r].pc = "render"
    /\ memoryCache' = cacheSet(memoryCache, req[r].url, html)
    /\ req' = [req EXCEPT ![r].pc = "set", ![r].html = Some(html),
                          ![r].cached = req[r].cached + 1,
                          ![r].sets = req[r].sets + 1]
    /\ UNCHANGED <<firestore, started, deletes, rejected, inv, invalidations, norm, restarts>>

RenderDone(r, html) ==
    /\ req[r].pc = "render"
    /\ memoryCache' = cacheSet(memoryCache, safeUrl(req[r].url), html)
    /\ req' = [req EXCEPT ![r].pc = "set", ![r].html = Some(html),
                          ![r].cached = req[r].cached + 1,
                          ![r].sets = req[r].sets + 1]
    /\ UNCHANGED <<firestore, started, deletes, rejected, inv, invalidations, norm, restarts>>

(***************************************************************************)
(* The render is rejected: the outer catch answers 500.                    *)
(***************************************************************************)
RenderFailCached(r) ==
    /\ req[r].pc = "render"
    /\ memoryCache' = cacheSet(memoryCache, safeUrl(req[r].url), <<>>)
    /\ req' = [req EXCEPT ![r] =
            return([req[r] EXCEPT !.renderError = TRUE], 500, <<"Server Error">>)]
    /\ UNCHANGED <<firestore, started, deletes, rejected, inv, invalidations, norm, restarts>>

RenderFail(r) ==
    /\ req[r].pc = "render"
    /\ req' = [req EXCEPT ![r] =
            return([req[r] EXCEPT !.renderError = TRUE], 500, <<"Server Error">>)]
    /\ UNCHANGED <<memoryCache, firestore, started, deletes, rejected, inv, invalidations, norm, restarts>>

(***************************************************************************)
(* The store applies docRef.set({html, ...}); the handler resumes later.   *)
(* The fields timestamp, url and createdAt of the document are never read  *)
(* back and are left out.                                                  *)
(***************************************************************************)
StoreSetLost(r) ==
    /\ req[r].pc = "set"
    /\ req' = [req EXCEPT ![r].pc = "saved"]
    /\ UNCHANGED <<memoryCache, firestore, started, deletes, rejected, inv, invalidations, norm, restarts>>

StoreSetIfAbsent(r) ==
    /\ req[r].pc = "set"
    /\ firestore' = [firestore EXCEPT ![safeUrl(req[r].url)] =
            IF @ = NoDoc THEN Doc(req[r].html.val) ELSE @]
    /\ req' = [req EXCEPT ![r].pc = "saved"]
    /\ UNCHANGED <<memoryCache, started, deletes, rejected, inv, invalidations, norm, restarts>>

StoreSet(r) ==
    /\ req[r].pc = "set"
    /\ firestore' = [firestore EXCEPT ![safeUrl(req[r].url)] = Doc(req[r].html.val)]
    /\ req' = [req EXCEPT ![r].pc = "saved"]
    /\ UNCHANGED <<memoryCache, started, deletes, rejected, inv, invalidations, norm, restarts>>

(***************************************************************************)
(* docRef.set() is rejected: the inner catch logs it, then res.send(html). *)
(***************************************************************************)
StoreSetFail(r) ==
    /\ req[r].pc = "set"
    /\ req' = [req EXCEPT ![r] =
            return([req[r] EXCEPT !.saveError = TRUE], 200, req[r].html.val)]
    /\ UNCHANGED <<memoryCache, firestore, started, deletes, rejected, inv, invalidations, norm, restarts>>

(***************************************************************************)
(* The handler resumes after the write: res.send(html).                    *)
(***************************************************************************)
AfterSet(r) ==
    /\ req[r].pc = "saved"
    /\ req' = [req EXCEPT ![r] = return(req[r], 200, req[r].html.val)]
    /\ UNCHANGED <<memoryCache, firestore, started, deletes, rejected, inv, invalidations, norm, restarts>>

(***************************************************************************)
(* server.post('/api/cache/invalidate').  The body gives url and pattern,  *)
(* each possibly undefined.  A url that is truthy but not a string has no  *)
(* replace method: the TypeError is caught and answered 500.  A falsy      *)
(* value of another type behaves as undefined, a pattern of another type   *)
(* is converted to a string by includes.                                   *)
(* The handler does not await the delete() calls: they are in flight when  *)
(* the response is sent, and nothing observes their outcome.               *)
(***************************************************************************)
InvUrls == {<<>>, <<"/", "a">>, <<"TAB", "_">>}
Patterns == {<<>>, <<"a">>, <<"_">>}

\* The request bodies: a url alone, a pattern alone (or nothing), both, and
\* a url that is not a string.
Bodies ==
    [url : {Some(u) : u \in InvUrls}, urlIsString : {TRUE}, pattern : {Undefined}]
    \cup
    [url : {Undefined}, urlIsString : {TRUE},
     pattern : {Undefined} \cup {Some(p) : p \in Patterns}]
    \cup
    [url : {Some(<<"/", "a">>)}, urlIsString : {TRUE}, pattern : {Some(<<"_">>)}]
    \cup
    [url : {Some(<<>>)}, urlIsString : {FALSE},
     pattern : {Undefined, Some(<<"_">>)}]

\* if (url) / if (pattern)
givenAlways(field) == TRUE

given(field) == field.def /\ truthy(field.val)

\* The keys the url branch deletes.
urlKeysAll(body) ==
    IF body.urlIsString /\ given(body.url) THEN Keys ELSE {}

urlKeys(body) ==
    IF body.urlIsString /\ given(body.url)
    THEN {safeUrlInvalidate(body.url.val)} ELSE {}

\* The keys the pattern branch deletes, out of the snapshot memoryKeys.
patternKeysOfStore(body, memoryKeys) ==
    IF given(body.pattern)
    THEN {key \in Keys : includes(key, body.pattern.val)}
    ELSE {}

patternKeys(body, memoryKeys) ==
    IF given(body.pattern)
    THEN {key \in memoryKeys : includes(key, body.pattern.val)}
    ELSE {}

Invalidate(body) ==
    /\ invalidations < MaxInvalidations
    /\ invalidations' = invalidations + 1
    /\ IF ~body.urlIsString
       THEN \* url.replace is not a function
            /\ inv' = [url |-> body.url, urlIsString |-> FALSE,
                       pattern |-> body.pattern,
                       res |-> send(NoResponse, 500, <<"Cache invalidation failed">>)]
            /\ UNCHANGED <<memoryCache, deletes>>
       ELSE LET afterUrl == cacheDelAll(memoryCache, urlKeys(body))
                memoryKeys == IF given(body.pattern) THEN cacheKeys(afterUrl) ELSE {}
                matched == patternKeys(body, memoryKeys)
            IN  /\ memoryCache' = cacheDelAll(afterUrl, matched)
                /\ deletes' = [k \in Keys |->
                        deletes[k] + (IF k \in urlKeys(body) THEN 1 ELSE 0)
                                   + (IF k \in matched THEN 1 ELSE 0)]
                /\ inv' = [url |-> body.url, urlIsString |-> TRUE,
                           pattern |-> body.pattern,
                           res |-> send(NoResponse, 200, <<"success">>)]
    /\ UNCHANGED <<firestore, req, started, rejected, norm, restarts>>

(***************************************************************************)
(* The store applies a delete() of the invalidation.                       *)
(***************************************************************************)
StoreDelete(key) ==
    /\ deletes[key] > 0
    /\ deletes' = [deletes EXCEPT ![key] = deletes[key] - 1]
    /\ firestore' = [firestore EXCEPT ![key] = NoDoc]
    /\ UNCHANGED <<memoryCache, req, started, rejected, inv, invalidations, norm, restarts>>

(***************************************************************************)
(* A delete() of the invalidation is rejected.  The promise was dropped:   *)
(* no handler runs, nothing is undone and nothing is issued again.         *)
(***************************************************************************)
StoreDeleteFailRetry(key) ==
    /\ deletes[key] > 0
    /\ deletes' = deletes
    /\ rejected[key] = 0
    /\ rejected' = [rejected EXCEPT ![key] = 1]
    /\ UNCHANGED <<memoryCache, firestore, req, started, inv, invalidations, norm, restarts>>

StoreDeleteFail(key) ==
    /\ deletes[key] > 0
    /\ deletes' = [deletes EXCEPT ![key] = deletes[key] - 1]
    /\ rejected' = [rejected EXCEPT ![key] = rejected[key] + 1]
    /\ UNCHANGED <<memoryCache, firestore, req, started, inv, invalidations, norm, restarts>>

Next ==
    \/ \E r \in Reqs, url \in Urls : Receive(r, url)
    \/ \E r \in Reqs : StoreGet(r)
    \/ \E r \in Reqs : StoreGetFail(r)
    \/ \E r \in Reqs : AfterGet(r)
    \/ \E r \in Reqs, html \in Htmls : RenderDone(r, html)
    \/ \E r \in Reqs : RenderFail(r)
    \/ \E r \in Reqs : StoreSet(r)
    \/ \E r \in Reqs : StoreSetFail(r)
    \/ \E r \in Reqs : AfterSet(r)
    \/ \E body \in Bodies : Invalidate(body)
    \/ \E key \in Keys : StoreDelete(key)
    \/ \E key \in Keys : StoreDeleteFail(key)

Spec == Init /\ [][Next]_vars

(***************************************************************************)
(* The GET handler on its own, with the calls it awaits completing: every  *)
(* docRef.get(), render and docRef.set() it waits on is eventually         *)
(* resolved or rejected, and the event loop eventually resumes a handler   *)
(* whose await has settled.                                                *)
(***************************************************************************)
Resumes(r) ==
    \/ StoreGet(r) \/ StoreGetFail(r) \/ AfterGet(r)
    \/ (\E html \in Htmls : RenderDone(r, html)) \/ RenderFail(r)
    \/ StoreSet(r) \/ StoreSetFail(r) \/ AfterSet(r)

NextResolve ==
    \/ \E r \in Reqs, url \in Urls : Receive(r, url)
    \/ \E r \in Reqs : StoreGet(r)
    \/ \E r \in Reqs : StoreGetFail(r)
    \/ \E r \in Reqs : AfterGet(r)
    \/ \E r \in Reqs, html \in Htmls : RenderDone(r, html)
    \/ \E r \in Reqs : RenderFail(r)
    \/ \E r \in Reqs : StoreSet(r)
    \/ \E r \in Reqs : StoreSetFail(r)
    \/ \E r \in Reqs : AfterSet(r)

SpecLive ==
    Init /\ [][NextResolve]_vars /\ \A r \in Reqs : WF_vars(Resumes(r))

(***************************************************************************)
(* The server process restarts.  The module is evaluated again, so the     *)
(* NodeCache is constructed anew and empty; the handlers that were running *)
(* are gone and their requests are never answered.  Firestore is another   *)
(* process: its documents stay, the delete() calls already sent are still  *)
(* in flight, and a docRef.set() already sent may still be applied.        *)
(* The locals of the handlers go with the process: of a request that was   *)
(* received only the docRef.set() in flight, if any, is kept.  A restart   *)
(* with an empty NodeCache and no handler running changes nothing and is   *)
(* left out.                                                               *)
(***************************************************************************)
atRestart(q) ==
    IF q.pc = "idle" THEN q
    ELSE IF q.pc = "set"
         THEN [IdleReq EXCEPT !.pc = "orphan", !.url = q.url, !.html = q.html]
         ELSE [IdleReq EXCEPT !.pc = "killed"]

RestartWipe ==
    /\ restarts < MaxRestarts
    /\ memoryCache # <<>> \/ \E r \in Reqs : req[r].pc \notin {"idle", "done"}
    /\ restarts' = restarts + 1
    /\ memoryCache' = <<>>
    /\ firestore' = [k \in Keys |-> NoDoc]
    /\ req' = [r \in Reqs |-> atRestart(req[r])]
    /\ inv' = NoInvalidation
    /\ UNCHANGED <<started, deletes, rejected, invalidations, norm>>

Restart ==
    /\ restarts < MaxRestarts
    /\ memoryCache # <<>> \/ \E r \in Reqs : req[r].pc \notin {"idle", "done"}
    /\ restarts' = restarts + 1
    /\ memoryCache' = <<>>
    /\ req' = [r \in Reqs |-> atRestart(req[r])]
    /\ inv' = NoInvalidation
    /\ UNCHANGED <<firestore, started, deletes, rejected, invalidations, norm>>

\* The store applies the docRef.set() of a handler that is gone.
OrphanSet(r) ==
    /\ req[r].pc = "orphan"
    /\ firestore' = [firestore EXCEPT ![safeUrl(req[r].url)] = Doc(req[r].html.val)]
    /\ req' = [req EXCEPT ![r] = [IdleReq EXCEPT !.pc = "killed"]]
    /\ UNCHANGED <<memoryCache, started, deletes, rejected, inv, invalidations, norm, restarts>>

\* The docRef.set() of a handler that is gone never reaches the store.
OrphanSetFail(r) ==
    /\ req[r].pc = "orphan"
    /\ req' = [req EXCEPT ![r] = [IdleReq EXCEPT !.pc = "killed"]]
    /\ UNCHANGED <<memoryCache, firestore, started, deletes, rejected, inv, invalidations, norm, restarts>>

NextRestart ==
    \/ Next
    \/ Restart
    \/ \E r \in Reqs : OrphanSet(r)
    \/ \E r \in Reqs : OrphanSetFail(r)

SpecRestart == Init /\ [][NextRestart]_vars

(***************************************************************************)
(* The key normalisation on its own: every string of at most MaxLen        *)
(* characters is normalised at both places of the code, and the key is     *)
(* normalised once more.                                                   *)
(***************************************************************************)
Chars == {"/", "_", "a"} \cup Whitespace
Strings == UNION {[1..n -> Chars] : n \in 0..MaxLen}

InitNormalize ==
    /\ memoryCache = <<>>
    /\ firestore = [k \in Keys |-> NoDoc]
    /\ req = [r \in Reqs |-> IdleReq]
    /\ started = 0
    /\ deletes = [k \in Keys |-> 0]
    /\ rejected = [k \in Keys |-> 0]
    /\ inv = NoInvalidation
    /\ invalidations = 0
    /\ restarts = 0
    /\ norm \in [stage : {0}, p : Strings, key : {<<>>}, again : {<<>>}, invKey : {<<>>}]

Normalize ==
    /\ norm.stage = 0
    /\ norm' = [norm EXCEPT !.stage = 1, !.key = safeUrl(norm.p),
                            !.invKey = safeUrlInvalidate(norm.p)]
    /\ UNCHANGED <<memoryCache, firestore, req, started, deletes, rejected, inv,
                   invalidations, restarts>>

Renormalize ==
    /\ norm.stage = 1
    /\ norm' = [norm EXCEPT !.stage = 2, !.again = safeUrl(norm.key)]
    /\ UNCHANGED <<memoryCache, firestore, req, started, deletes, rejected, inv,
                   invalidations, restarts>>

NextNormalize == Normalize \/ Renormalize

SpecNormalize == InitNormalize /\ [][NextNormalize]_vars

(***************************************************************************)
(* Vocabulary of the properties.                                           *)
(***************************************************************************)
\* The cache key of GET request r.
keyOf(r) == safeUrl(req[r].url)

\* A durable record is well formed: it exists, has a payload, and the
\* payload's html is a string.
WellFormed(doc) == doc.exists /\ doc.hasData /\ doc.htmlIsString

\* The response carries content / is the generic failure.
Content(res, body) == res = [sent |-> 1, status |-> 200, body |-> body]
Failure(res) == res.sent = 1 /\ res.status = 500

\* Request r takes a step.
Steps(r) == req'[r] # req[r]

\* Request r runs alone: no other GET request and no invalidation so far.
Alone(r) ==
    /\ invalidations = 0
    /\ \A q \in Reqs \ {r} : req[q].pc = "idle"

\* The NodeCache holds html at key.
Holds(cache, key, html) == key \in DOMAIN cache /\ cache[key] = html

(***************************************************************************)
(* C2.  A rejected docRef.get() or docRef.set() never reaches the          *)
(* requester: a GET request whose store call failed is answered with the   *)
(* rendered html unless its render failed, and a 500 is only ever sent     *)
(* after a render failure.                                                 *)
(***************************************************************************)
C2_StoreFailureContained ==
    \A r \in Reqs :
        /\ Failure(req[r].res) => req[r].renderError
        /\ req[r].readError => req[r].pc \in {"render", "set", "saved", "done"}
        /\ req[r].pc = "done" => req[r].res.sent = 1
        /\ (req[r].readError \/ req[r].saveError) /\ req[r].pc = "done"
                /\ ~req[r].renderError
             => req[r].html.def /\ Content(req[r].res, req[r].html.val)

\* A request whose read and whose write both failed was answered content.
C2_Witness ==
    \E r \in Reqs :
        /\ req[r].readError /\ req[r].saveError
        /\ req[r].pc = "done" /\ Content(req[r].res, req[r].html.val)

(***************************************************************************)
(* C3.  Read-through: a GET request that found nothing in the NodeCache    *)
(* and whose docRef.get() returned a well-formed record with html c is     *)
(* answered c, has stored c in the NodeCache at its key when it answers,   *)
(* never calls the renderer and never writes to Firestore.                 *)
(***************************************************************************)
C3_Answered ==
    \A r \in Reqs :
        ~req[r].memoryCached.def /\ req[r].gets = 1 /\ ~req[r].readError
            /\ WellFormed(req[r].cachedDoc)
        => /\ req[r].pc \in {"gotDoc", "done"}
           /\ req[r].renders = 0 /\ req[r].sets = 0
           /\ req[r].pc = "done" =>
                Content(req[r].res, req[r].cachedDoc.html) /\ req[r].cached = 1

C3_Backfill ==
    \A r \in Reqs :
        req[r].pc = "gotDoc" /\ WellFormed(req[r].cachedDoc)
            /\ ~req[r].memoryCached.def /\ Steps(r)
        => /\ Holds(memoryCache', keyOf(r), req[r].cachedDoc.html)
           /\ firestore' = firestore

C3_ReadThrough == []C3_Answered /\ [][C3_Backfill]_vars

\* A request was answered from Firestore and the NodeCache holds the html.
C3_Witness ==
    \E r \in Reqs :
        /\ req[r].pc = "done" /\ ~req[r].memoryCached.def /\ ~req[r].readError
        /\ req[r].cachedDoc = Doc(<<"h">>)
        /\ Content(req[r].res, <<"h">>)
        /\ Holds(memoryCache, keyOf(r), <<"h">>)

(***************************************************************************)
(* C4.  Full miss: a GET request that runs alone, found its key in neither *)
(* tier, and whose render and docRef.set() succeeded has called the        *)
(* renderer exactly once, is answered the rendered html, and leaves that   *)
(* html at its key in the NodeCache and in Firestore.                      *)
(***************************************************************************)
C4_FullMiss ==
    \A r \in Reqs :
        /\ Alone(r) /\ req[r].pc = "done"
        /\ ~req[r].memoryCached.def
        /\ req[r].gets = 1 /\ ~req[r].readError /\ req[r].cachedDoc = NoDoc
        /\ ~req[r].renderError /\ ~req[r].saveError
        => /\ req[r].renders = 1
           /\ req[r].html.def /\ Content(req[r].res, req[r].html.val)
           /\ Holds(memoryCache, keyOf(r), req[r].html.val)
           /\ firestore[keyOf(r)] = Doc(req[r].html.val)

\* A lone request rendered "h" on a full miss and both tiers hold it.
C4_Witness ==
    \E r \in Reqs :
        /\ Alone(r) /\ req[r].pc = "done" /\ ~req[r].memoryCached.def
        /\ ~req[r].readError /\ req[r].cachedDoc = NoDoc
        /\ ~req[r].saveError /\ req[r].html = Some(<<"h">>)
        /\ Content(req[r].res, <<"h">>)
        /\ Holds(memoryCache, keyOf(r), <<"h">>)
        /\ firestore[keyOf(r)] = Doc(<<"h">>)

(***************************************************************************)
(* C7.  The key normalisation is total and idempotent: for every string p  *)
(* the key has the length of p, carries '_' wherever p has '/' or a        *)
(* whitespace character and the character of p everywhere else;            *)
(* normalising the key again gives the key; and the invalidation handler   *)
(* computes the same key as the GET handler.                               *)
(***************************************************************************)
C7_NormalizeIdempotent ==
    /\ norm.stage >= 1 =>
        /\ DOMAIN norm.key = 1..Len(norm.p)
        /\ \A i \in 1..Len(norm.p) :
              norm.key[i] = IF norm.p[i] = "/" \/ norm.p[i] \in Whitespace
                            THEN "_" ELSE norm.p[i]
        /\ norm.invKey = norm.key
    /\ norm.stage = 2 => norm.again = norm.key

\* "/ " has been normalised to "__", and "__" to itself.
C7_Witness ==
    /\ norm.stage = 2
    /\ norm.p = <<"/", " ">>
    /\ norm.key = <<"_", "_">>
    /\ norm.again = <<"_", "_">>

(***************************************************************************)
(* C8.  An invalidation that issues a delete() is answered success in the  *)
(* same step.  A rejected delete() undoes nothing and is not issued again: *)
(* the step leaves the NodeCache, Firestore, every GET request and the     *)
(* answer of the invalidation as they were, and one call fewer is in       *)
(* flight.  An invalidation by url whose key is in neither tier answers    *)
(* success and changes neither tier, nor does its delete() when the store  *)
(* applies it.                                                             *)
(***************************************************************************)
C8_DeleteRejected ==
    /\ (\E k \in Keys : deletes'[k] > deletes[k])
        => inv'.res = [sent |-> 1, status |-> 200, body |-> <<"success">>]
    /\ \A k \in Keys :
        rejected'[k] > rejected[k]
        => /\ memoryCache' = memoryCache /\ firestore' = firestore
           /\ req' = req /\ inv' = inv
           /\ deletes' = [deletes EXCEPT ![k] = deletes[k] - 1]

C8_AbsentKey ==
    /\ invalidations' = invalidations + 1 /\ inv'.urlIsString
            /\ given(inv'.url) /\ ~given(inv'.pattern)
            /\ safeUrlInvalidate(inv'.url.val) \notin DOMAIN memoryCache
            /\ firestore[safeUrlInvalidate(inv'.url.val)] = NoDoc
       => /\ inv'.res = [sent |-> 1, status |-> 200, body |-> <<"success">>]
          /\ memoryCache' = memoryCache /\ firestore' = firestore
    /\ \A k \in Keys :
        deletes'[k] < deletes[k] /\ firestore[k] = NoDoc => firestore' = firestore

C8_TierIndependence == [][C8_DeleteRejected /\ C8_AbsentKey]_vars

\* A request had stored a key in the NodeCache; the invalidation removed it
\* and answered success; its delete() was rejected and Firestore keeps the
\* document.
C8_Witness ==
    \E r \in Reqs :
        /\ req[r].pc = "done" /\ req[r].cached = 1 /\ req[r].epoch = 0
        /\ rejected[keyOf(r)] = 1 /\ deletes[keyOf(r)] = 0
        /\ keyOf(r) \notin DOMAIN memoryCache
        /\ firestore[keyOf(r)] # NoDoc
        /\ inv.res = [sent |-> 1, status |-> 200, body |-> <<"success">>]

(***************************************************************************)
(* C9.  A GET request whose render failed is answered 500 exactly once,    *)
(* has called the renderer once, and has written to neither tier; the      *)
(* failing step changes neither tier.  A document appears in Firestore     *)
(* only when the store applies the docRef.set() of a request that found    *)
(* no hit in either tier and whose one render succeeded, and it holds      *)
(* that request's html.                                                    *)
(***************************************************************************)
C9_Answered ==
    \A r \in Reqs :
        req[r].renderError
        => /\ req[r].pc = "done" /\ Failure(req[r].res)
           /\ req[r].renders = 1 /\ req[r].cached = 0 /\ req[r].sets = 0

C9_Step ==
    /\ \A r \in Reqs :
        req'[r].renderError /\ ~req[r].renderError
        => memoryCache' = memoryCache /\ firestore' = firestore
    /\ \A k \in Keys :
        firestore'[k] # firestore[k] /\ firestore'[k] # NoDoc
        => \E r \in Reqs :
            /\ req[r].pc = "set" /\ Steps(r) /\ keyOf(r) = k
            /\ req[r].gets = 1
            /\ req[r].readError \/ ~WellFormed(req[r].cachedDoc)
            /\ req[r].renders = 1 /\ req[r].html.def /\ ~req[r].renderError
            /\ firestore'[k] = Doc(req[r].html.val)

C9_RenderFailure == []C9_Answered /\ [][C9_Step]_vars

\* A request was answered 500 after its render failed; its key is in
\* neither tier.
C9_Witness ==
    \E r \in Reqs :
        /\ req[r].renderError /\ Failure(req[r].res)
        /\ keyOf(r) \notin DOMAIN memoryCache
        /\ firestore[keyOf(r)] = NoDoc

(***************************************************************************)
(* C10.  A snapshot that is not a well-formed record (no document, no      *)
(* payload, or an html that is not a string) is a miss and not an error:   *)
(* the handler calls the renderer, sends 500 only if the render fails,     *)
(* and with the rendered html it overwrites the NodeCache entry, issues    *)
(* the docRef.set() that overwrites the document, and answers the html.    *)
(***************************************************************************)
Malformed(r) ==
    /\ req[r].pc \notin {"idle", "get"} /\ req[r].gets = 1
    /\ ~req[r].readError /\ ~WellFormed(req[r].cachedDoc)

C10_Miss ==
    \A r \in Reqs :
        Malformed(r)
        => /\ req[r].pc # "gotDoc" => req[r].renders = 1
           /\ Failure(req[r].res) => req[r].renderError
           /\ req[r].pc = "done" /\ ~req[r].renderError
                => /\ Content(req[r].res, req[r].html.val)
                   /\ req[r].cached = 1 /\ req[r].sets = 1

C10_Overwrite ==
    \A r \in Reqs :
        Malformed(r) /\ Steps(r)
        => /\ req[r].pc = "render" /\ req'[r].pc = "set"
                => Holds(memoryCache', keyOf(r), req'[r].html.val)
           /\ req[r].pc = "set" /\ req'[r].pc = "saved"
                => firestore'[keyOf(r)] = Doc(req[r].html.val)

C10_MalformedRecord == []C10_Miss /\ [][C10_Overwrite]_vars

\* A request read a document whose html is not a string, rendered "h",
\* answered it, and both tiers hold "h".
C10_Witness ==
    \E r \in Reqs :
        /\ req[r].pc = "done" /\ req[r].cachedDoc = NoHtmlDoc /\ ~req[r].readError
        /\ Content(req[r].res, <<"h">>)
        /\ Holds(memoryCache, keyOf(r), <<"h">>)
        /\ firestore[keyOf(r)] = Doc(<<"h">>)

(***************************************************************************)
(* C1.  Key invalidation, as claimed: once an invalidation by url p has    *)
(* been answered, and until the next GET request for p arrives, the key    *)
(* of p is in neither the NodeCache nor Firestore, whatever the store and  *)
(* the GET requests in flight do; and the first GET request for p that     *)
(* arrives after the answer calls the renderer.                            *)
(***************************************************************************)
\* GET request r arrived after the last invalidation was answered.
Since(r) == req[r].pc # "idle" /\ req[r].epoch = invalidations

C1_KeyInvalidated ==
    inv.res.sent = 1 /\ inv.urlIsString /\ inv.url.def
        /\ safeUrlInvalidate(inv.url.val) \in Keys
    => LET key == safeUrlInvalidate(inv.url.val)
       IN  /\ (\A r \in Reqs : keyOf(r) = key => ~Since(r))
                => key \notin DOMAIN memoryCache /\ firestore[key] = NoDoc
           /\ \A r \in Reqs :
                /\ Since(r) /\ keyOf(r) = key /\ req[r].pc = "done"
                /\ \A q \in Reqs : q < r /\ keyOf(q) = key => ~Since(q)
                => req[r].renders = 1

(***************************************************************************)
(* C5.  Volatile hit, as claimed: when a GET request has rendered html c   *)
(* and stored it in the NodeCache, a later GET request for the same url    *)
(* that finds c in the NodeCache answers c at once, with no docRef.get(),  *)
(* no docRef.set() and no render; for every c, the empty page included.    *)
(***************************************************************************)
C5_VolatileHit ==
    \A r1, r2 \in Reqs :
        /\ r1 < r2 /\ req[r1].html.def /\ req[r1].cached = 1
        /\ req[r2].pc # "idle" /\ req[r2].url = req[r1].url
        /\ req[r2].memoryCached = req[r1].html
        => /\ req[r2].pc = "done"
           /\ Content(req[r2].res, req[r1].html.val)
           /\ req[r2].gets = 0 /\ req[r2].renders = 0 /\ req[r2].sets = 0

(***************************************************************************)
(* C6.  Pattern invalidation, as claimed: when an invalidation by pattern  *)
(* s has been served, every key the NodeCache held that contains s is in   *)
(* neither tier, and every other key it held is in both tiers as before;   *)
(* for every string s, the empty one included.                             *)
(***************************************************************************)
C6_Served ==
    invalidations' = invalidations + 1 /\ inv'.urlIsString
        /\ ~inv'.url.def /\ inv'.pattern.def
    => \A key \in DOMAIN memoryCache :
        IF includes(key, inv'.pattern.val)
        THEN key \notin DOMAIN memoryCache' /\ firestore'[key] = NoDoc
        ELSE Holds(memoryCache', key, memoryCache[key])
                /\ firestore'[key] = firestore[key]

C6_PatternInvalidation == [][C6_Served]_vars

(***************************************************************************)
(* C11.  Pattern invalidation does not see documents that are only in      *)
(* Firestore: an invalidation request issues no delete() for a key that    *)
(* is not in the NodeCache when the request arrives and is not the key of  *)
(* its url, and leaves the document of that key as it is, whether or not   *)
(* the key contains the pattern.                                           *)
(***************************************************************************)
C11_Served ==
    invalidations' = invalidations + 1 /\ inv'.urlIsString
    => \A key \in Keys \ DOMAIN memoryCache :
        /\ firestore'[key] = firestore[key]
        /\ key \notin urlKeys(inv') => deletes'[key] = deletes[key]

C11_DurableOnly == [][C11_Served]_vars

\* The pattern "_" was served while "_a" was in the NodeCache and "__" only
\* in Firestore: a delete() is in flight for "_a", none was issued for "__",
\* whose document is still there.
C11_Witness ==
    /\ inv.res.sent = 1 /\ ~inv.url.def /\ inv.pattern = Some(<<"_">>)
    /\ deletes[<<"_", "a">>] = 1
    /\ \A r \in Reqs : req[r].pc # "idle" => keyOf(r) = <<"_", "a">>
    /\ <<"_", "_">> \notin DOMAIN memoryCache
    /\ firestore[<<"_", "_">>] = Doc(<<"h">>)
    /\ deletes[<<"_", "_">>] = 0 /\ rejected[<<"_", "_">>] = 0

(***************************************************************************)
(* C12.  Key collision, as claimed: when a GET request for url p has       *)
(* rendered html c and stored it, a later GET request for another url q    *)
(* with the same key that finds c in the NodeCache answers c without a     *)
(* render; and an invalidation by a url with that key removes the key      *)
(* from the NodeCache and issues the delete() of its document.             *)
(***************************************************************************)
C12_Shared ==
    \A r1, r2 \in Reqs :
        /\ r1 < r2 /\ req[r1].html.def /\ req[r1].cached = 1
        /\ req[r2].pc # "idle" /\ req[r2].url # req[r1].url
        /\ keyOf(r2) = keyOf(r1)
        /\ req[r2].memoryCached = req[r1].html
        => /\ req[r2].pc = "done"
           /\ Content(req[r2].res, req[r1].html.val)
           /\ req[r2].renders = 0

C12_Invalidated ==
    invalidations' = invalidations + 1 /\ inv'.urlIsString /\ given(inv'.url)
    => /\ safeUrlInvalidate(inv'.url.val) \notin DOMAIN memoryCache'
       /\ deletes'[safeUrlInvalidate(inv'.url.val)]
            > deletes[safeUrlInvalidate(inv'.url.val)]

C12_KeyCollision == []C12_Shared /\ [][C12_Invalidated]_vars

(***************************************************************************)
(* C13.  No single-flight: a GET request waiting for its Firestore get,    *)
(* its render or its Firestore set can take its next step whatever the     *)
(* other requests are doing, and a write replaces what the tier held: when *)
(* a render resolves the NodeCache holds that html at the key, and when    *)
(* the store applies a set the document of the key holds the html of that  *)
(* request.  The witness is the execution of the claim: two requests for   *)
(* one key, both in flight, both found the key in neither tier, both       *)
(* rendered, with different html, and both wrote to both tiers.            *)
(***************************************************************************)
C13_Unserialised ==
    \A r \in Reqs :
        /\ req[r].pc = "get" => ENABLED StoreGet(r)
        /\ req[r].pc = "render" => \A html \in Htmls : ENABLED RenderDone(r, html)
        /\ req[r].pc = "set" => ENABLED StoreSet(r)

C13_LastWrite ==
    \A r \in Reqs :
        /\ req[r].pc = "render" /\ req'[r].pc = "set"
            => Holds(memoryCache', keyOf(r), req'[r].html.val)
        /\ req[r].pc = "set" /\ req'[r].pc = "saved"
            => firestore'[keyOf(r)] = Doc(req[r].html.val)

C13_NoSingleFlight == []C13_Unserialised /\ [][C13_LastWrite]_vars

C13_Witness ==
    /\ \A r \in {1, 2} :
        /\ req[r].pc = "saved"
        /\ req[r].memoryCached = Undefined
        /\ req[r].cachedDoc = NoDoc /\ ~req[r].readError
        /\ req[r].renders = 1 /\ req[r].cached = 1 /\ req[r].sets = 1
    /\ keyOf(1) = keyOf(2)
    /\ req[1].html.val # req[2].html.val
    /\ Holds(memoryCache, keyOf(1), req[2].html.val)
    /\ firestore[keyOf(1)] = Doc(req[2].html.val)

(***************************************************************************)
(* C14.  The tiers can disagree at rest, and stay so: in a state with no   *)
(* GET request in flight and no delete() pending, a step that is not a new *)
(* invalidation leaves both tiers as they are, and a GET request that      *)
(* finds truthy html in the NodeCache is answered with it at once, so the  *)
(* state is at rest again.  The witness is the state of the claim: two     *)
(* requests for one key found it in neither tier, wrote the NodeCache in   *)
(* one order and Firestore in the other, both are answered, no store call  *)
(* failed, and the NodeCache holds the html of one while the document      *)
(* holds the html of the other.                                            *)
(***************************************************************************)
C14_Quiescent ==
    /\ \A r \in Reqs : req[r].pc \in {"idle", "done"}
    /\ \A key \in Keys : deletes[key] = 0

C14_AtRest ==
    C14_Quiescent /\ invalidations' = invalidations
    => /\ memoryCache' = memoryCache /\ firestore' = firestore
       /\ \A r \in Reqs :
            Steps(r) /\ memoryHit(req'[r].memoryCached)
            => /\ Content(req'[r].res, memoryCache[keyOf(r)'])
               /\ C14_Quiescent'

C14_Disagreement == [][C14_AtRest]_vars

C14_Witness ==
    /\ C14_Quiescent
    /\ \A key \in Keys : rejected[key] = 0
    /\ \A r \in {1, 2} :
        /\ req[r].pc = "done" /\ req[r].html.def
        /\ req[r].memoryCached = Undefined /\ req[r].cachedDoc = NoDoc
        /\ ~req[r].readError /\ ~req[r].renderError /\ ~req[r].saveError
    /\ keyOf(1) = keyOf(2)
    /\ req[1].html.val # req[2].html.val
    /\ Holds(memoryCache, keyOf(1), req[2].html.val)
    /\ truthy(req[2].html.val)
    /\ firestore[keyOf(1)] = Doc(req[1].html.val)

(***************************************************************************)
(* C15.  An invalidation request whose body has neither url nor pattern    *)
(* is answered {success: true}; the NodeCache and Firestore are as before, *)
(* no delete() is issued and no GET request is touched.                    *)
(***************************************************************************)
C15_Neither ==
    /\ invalidations' = invalidations + 1
    /\ inv'.urlIsString /\ ~inv'.url.def /\ ~inv'.pattern.def
    => /\ inv'.res = send(NoResponse, 200, <<"success">>)
       /\ memoryCache' = memoryCache /\ firestore' = firestore
       /\ deletes' = deletes /\ rejected' = rejected /\ req' = req

C15_MalformedInvalidation == [][C15_Neither]_vars

\* The empty body has been answered {success: true} while the NodeCache
\* held a key and Firestore a document; both are still there.
C15_Witness ==
    /\ invalidations = 1
    /\ inv = [url |-> Undefined, urlIsString |-> TRUE, pattern |-> Undefined,
              res |-> send(NoResponse, 200, <<"success">>)]
    /\ memoryCache # << >>
    /\ \E key \in Keys : firestore[key] # NoDoc
    /\ \A key \in Keys : deletes[key] = 0 /\ rejected[key] = 0

(***************************************************************************)
(* C16.  No eviction.  A key leaves the NodeCache only in the step of an   *)
(* invalidation request whose url has that key or whose pattern the key    *)
(* contains, or in a restart of the process; a document leaves Firestore   *)
(* only when the store applies a delete(), and a delete() is only issued   *)
(* by an invalidation request; no step of a GET request removes a key or a *)
(* document; a restart leaves Firestore and the calls in flight to it as   *)
(* they are.                                                               *)
(***************************************************************************)
C16_Leaves ==
    /\ \A key \in DOMAIN memoryCache \ DOMAIN memoryCache' :
        \/ restarts' = restarts + 1
        \/ /\ invalidations' = invalidations + 1
           /\ \/ key \in urlKeys(inv')
              \/ given(inv'.pattern) /\ includes(key, inv'.pattern.val)
    /\ \A key \in Keys :
        /\ firestore[key] # NoDoc /\ firestore'[key] = NoDoc
            => deletes'[key] = deletes[key] - 1
        /\ deletes'[key] > deletes[key] => invalidations' = invalidations + 1
    /\ \A r \in Reqs :
        Steps(r) /\ restarts' = restarts
        => /\ DOMAIN memoryCache \subseteq DOMAIN memoryCache'
           /\ \A key \in Keys : firestore[key] # NoDoc => firestore'[key] # NoDoc
    /\ restarts' = restarts + 1
        => firestore' = firestore /\ deletes' = deletes

C16_NoEviction == [][C16_Leaves]_vars

\* The process restarted while a GET request had stored its html in the
\* NodeCache and was waiting for docRef.set(), another key having a document
\* in Firestore, and no invalidation was served: the NodeCache is empty, the
\* document is still there.
C16_Witness ==
    /\ restarts = 1 /\ invalidations = 0
    /\ memoryCache = <<>>
    /\ \E r \in Reqs :
        /\ req[r].pc = "orphan"
        /\ \E key \in Keys \ {keyOf(r)} : firestore[key] = Doc(<<"h">>)

(***************************************************************************)
(* C17.  Populate ordering, as claimed: when the render resolves, the      *)
(* NodeCache holds the html at the key and docRef.set() is issued in the   *)
(* same step, with nothing in between; a GET request for the same key      *)
(* received while that set is in flight and the NodeCache still holds the  *)
(* html is answered with it from the NodeCache, without a Firestore get;   *)
(* and the step in which the set is rejected leaves the NodeCache as it    *)
(* is.                                                                     *)
(***************************************************************************)
C17_Populate ==
    \A r \in Reqs :
        /\ req[r].pc = "render" /\ req'[r].pc = "set"
            => /\ Holds(memoryCache', keyOf(r), req'[r].html.val)
               /\ req'[r].sets = req[r].sets + 1
               /\ firestore' = firestore
        /\ req[r].pc = "set" /\ req'[r].saveError
            => memoryCache' = memoryCache
        /\ req[r].pc = "idle" /\ req'[r].pc # "idle"
            => \A q \in Reqs \ {r} :
                /\ req[q].pc = "set" /\ keyOf(q) = keyOf(r)'
                /\ Holds(memoryCache, keyOf(q), req[q].html.val)
                => /\ req'[r].pc = "done"
                   /\ Content(req'[r].res, req[q].html.val)
                   /\ req'[r].gets = 0

C17_PopulateOrdering == [][C17_Populate]_vars

(***************************************************************************)
(* C18.  Every GET request is answered exactly once: a handler that has    *)
(* finished has sent one response, a handler that is still running has     *)
(* sent none, and, when every call a handler awaits is eventually resolved *)
(* or rejected, every request received is eventually answered.             *)
(***************************************************************************)
C18_Once ==
    \A r \in Reqs :
        /\ req[r].res.sent = IF req[r].pc = "done" THEN 1 ELSE 0
        /\ req[r].pc = "done" => req[r].res.status \in {200, 500}

C18_Eventually ==
    \A r \in Reqs : req[r].pc # "idle" ~> req[r].pc = "done"

C18_Answered == []C18_Once /\ C18_Eventually

\* One request was answered 500 after its render was rejected, the other
\* was answered with its html after its docRef.set() was rejected.
C18_Witness ==
    /\ req[1].pc = "done" /\ req[1].renderError /\ Failure(req[1].res)
    /\ req[2].pc = "done" /\ req[2].readError /\ req[2].saveError
    /\ Content(req[2].res, req[2].html.val)

(***************************************************************************)
(* C19.  Content provenance.  The html the NodeCache holds at a key is     *)
(* html that the render of a request with that key resolved to, or the     *)
(* html of a well-formed document that a request with that key read; a     *)
(* request reads the NodeCache and Firestore at its own key only, and its  *)
(* html is set by its own render only; a document that appears in          *)
(* Firestore at a key holds the html rendered by a request with that key;  *)
(* and a request answered 200 is answered with what it read from the       *)
(* NodeCache at its key, what it read from the document of its key, or     *)
(* what its own render resolved to.                                        *)
(***************************************************************************)
C19_Rendered(r, html) == req[r].html.def /\ req[r].html.val = html

C19_ReadAt(r, html) ==
    /\ req[r].pc \notin {"idle", "get"} /\ req[r].gets = 1 /\ ~req[r].readError
    /\ WellFormed(req[r].cachedDoc) /\ req[r].cachedDoc.html = html

C19_Volatile ==
    \A key \in DOMAIN memoryCache :
        \E r \in Reqs :
            /\ req[r].pc # "idle" /\ keyOf(r) = key
            /\ C19_Rendered(r, memoryCache[key]) \/ C19_ReadAt(r, memoryCache[key])

C19_Answer ==
    \A r \in Reqs :
        req[r].pc = "done" /\ req[r].res.status = 200
        => \/ /\ memoryHit(req[r].memoryCached)
              /\ req[r].res.body = req[r].memoryCached.val
           \/ C19_ReadAt(r, req[r].res.body)
           \/ C19_Rendered(r, req[r].res.body)

C19_Flow ==
    /\ \A r \in Reqs :
        /\ req[r].pc = "idle" /\ req'[r].pc # "idle"
            => req'[r].memoryCached =
                 IF keyOf(r)' \in DOMAIN memoryCache
                 THEN Some(memoryCache[keyOf(r)']) ELSE Undefined
        /\ req[r].pc = "get" /\ req'[r].pc = "gotDoc"
            => req'[r].cachedDoc = firestore[keyOf(r)]
        /\ req'[r].html # req[r].html
            => req[r].pc = "render" /\ req[r].renders = 1
    /\ \A key \in Keys :
        firestore'[key] \notin {firestore[key], NoDoc}
        => \E r \in Reqs :
            /\ req[r].pc = "set" /\ req'[r].pc = "saved" /\ keyOf(r) = key
            /\ firestore'[key] = Doc(req[r].html.val)

C19_Provenance == [](C19_Volatile /\ C19_Answer) /\ [][C19_Flow]_vars

\* Request 1 read a document at its key, copied its html into the NodeCache
\* and answered it; request 2, for the other key, rendered, stored its html
\* in both tiers and answered it.
C19_Witness ==
    /\ keyOf(1) # keyOf(2)
    /\ req[1].pc = "done" /\ C19_ReadAt(1, <<"h">>)
    /\ Content(req[1].res, <<"h">>)
    /\ Holds(memoryCache, keyOf(1), <<"h">>)
    /\ req[2].pc = "done" /\ req[2].html.def
    /\ Content(req[2].res, req[2].html.val)
    /\ Holds(memoryCache, keyOf(2), req[2].html.val)
    /\ firestore[keyOf(2)] = Doc(req[2].html.val)

(***************************************************************************)
(* C20.  An invalidation request with a url and no pattern leaves every    *)
(* key other than the key of the url as it is in the NodeCache and in      *)
(* Firestore and issues no delete() for it.  No step of an invalidation    *)
(* (the request, or the store applying or rejecting one of its delete()    *)
(* calls) adds a key to the NodeCache or changes the html of one, puts a   *)
(* document into Firestore, or starts a render or a Firestore get; and a   *)
(* delete() touches the document of its own key only.                      *)
(***************************************************************************)
C20_OneKey ==
    /\ invalidations' = invalidations + 1
    /\ inv'.urlIsString /\ given(inv'.url) /\ ~given(inv'.pattern)
    => \A key \in Keys \ {safeUrlInvalidate(inv'.url.val)} :
        /\ key \in DOMAIN memoryCache' <=> key \in DOMAIN memoryCache
        /\ key \in DOMAIN memoryCache => memoryCache'[key] = memoryCache[key]
        /\ firestore'[key] = firestore[key]
        /\ deletes'[key] = deletes[key]

C20_NoContent ==
    invalidations' # invalidations \/ deletes' # deletes \/ rejected' # rejected
    => /\ req' = req
       /\ DOMAIN memoryCache' \subseteq DOMAIN memoryCache
       /\ \A key \in DOMAIN memoryCache' : memoryCache'[key] = memoryCache[key]
       /\ \A key \in Keys :
            /\ firestore'[key] \in {firestore[key], NoDoc}
            /\ firestore'[key] # firestore[key] => deletes'[key] = deletes[key] - 1

C20_ExactKey == [][C20_OneKey /\ C20_NoContent]_vars

\* Both keys were in the NodeCache and "__" had a document; the url "/a"
\* was invalidated: "_a" is gone from the NodeCache, "__" is still there
\* in both tiers and no delete() was issued for it.
C20_Witness ==
    /\ inv = [url |-> Some(<<"/", "a">>), urlIsString |-> TRUE,
              pattern |-> Undefined,
              res |-> send(NoResponse, 200, <<"success">>)]
    /\ <<"_", "a">> \notin DOMAIN memoryCache
    /\ \E r \in Reqs :
        keyOf(r) = <<"_", "a">> /\ req[r].pc = "done" /\ req[r].cached = 1
    /\ <<"_", "_">> \in DOMAIN memoryCache
    /\ firestore[<<"_", "_">>] # NoDoc
    /\ deletes[<<"_", "_">>] = 0 /\ rejected[<<"_", "_">>] = 0

=============================================================================
